---- MODULE Spec2Model ----
(***************************************************************************)
(* KKG display configurator: the pricing helpers of app/pricing.py, the    *)
(* footprint lookup of app/catalog.py and the PDQ form page of             *)
(* pages/Display.py.                                                       *)
(*                                                                         *)
(* Numbers.  Python floats are modelled as exact fixed-point integers:     *)
(*   a tier factor or a markup is counted in hundredths (1.0 = 100),       *)
(*   a part's base_value in whole dollars.                                 *)
(* Python values that may be None, a number or a non-numeric string are    *)
(* tagged records [t, n].  A string-valued key that is missing (dict.get   *)
(* giving None) is the string None.                                        *)
(***************************************************************************)
EXTENDS Integers, Sequences, FiniteSets, TLC

VARIABLES
    catalog,               \* the parsed catalog: controls, rules, parts, policy
    form,                  \* st.session_state.form / the form argument
    qty,                   \* argument of unit_factor
    rc,                    \* argument of matrix_markup_pct
    footprint_key,         \* argument of footprint_dims
    uf,                    \* what unit_factor returned
    markup,                \* what matrix_markup_pct returned or raised
    dims,                  \* what footprint_dims returned
    resolved,              \* what resolve_parts_per_unit (or the page) resolved or raised
    pc,                    \* "ready" before the call, "done" after it, "page" on the page
    session_state,         \* st.session_state of the Display page
    totals,                \* the totals the Display page last computed
    shown                  \* what the router of the Display page rendered

vars == <<catalog, form, qty, rc, footprint_key, uf, markup, dims, resolved, pc,
          session_state, totals, shown>>

pageVars == <<session_state, totals, shown>>

-----------------------------------------------------------------------------
(* Python values *)

None == "<None>"

Nil == [t |-> "none", n |-> 0]
Num(n) == [t |-> "int", n |-> n]
NonNumeric == [t |-> "str", n |-> 0]

\* Python truthiness of a tagged value: None and 0 are falsy, "abc" is truthy.
Truthy(v) == (v.t = "int" /\ v.n # 0) \/ v.t = "str"

\* Python truthiness of a string-valued key: None and "" are falsy.
TruthyStr(s) == s # None /\ s # ""

\* dict.get(key, default) on a map with string keys.
MapGet(m, k, d) == IF k \in DOMAIN m THEN m[k] ELSE d

\* {}
EmptyDict == [k \in {} |-> None]

Returned(v) == [raised |-> "", val |-> v]
Raised(e) == [raised |-> e, val |-> 0]

\* int(v or 0): None and 0 give 0, a number itself, a non-digit string raises.
IntOrZero(v) ==
    IF ~Truthy(v) THEN Returned(0)
    ELSE IF v.t = "int" THEN Returned(v.n)
    ELSE Raised("ValueError")

\* (v or d) for a value that is a number or None.
NumOr(v, d) == IF Truthy(v) THEN v.n ELSE d

-----------------------------------------------------------------------------
(* Bounds of the model *)

MaxBands == 2
MaxQty == 3

-----------------------------------------------------------------------------
(* app/pricing.py: unit_factor *)

\* One pass of the loop body over a band: the factor held after it.
BandApplyExclusiveAlways(band, inclusive, q, cur) ==
    LET min_q == NumOr(band.min_qty, 0)
        max_q == band.max_qty
        factor == NumOr(band.factor, 100)
    IN  IF max_q.t = "none"
        THEN IF q >= min_q THEN factor ELSE cur
        ELSE IF q >= min_q /\ q < max_q.n THEN factor ELSE cur

\* The loop body reading the factor without "or 1.0".
BandApplyDeclaredFactor(band, inclusive, q, cur) ==
    LET min_q == NumOr(band.min_qty, 0)
        max_q == band.max_qty
        factor == IF band.factor.t = "none" THEN 100 ELSE band.factor.n
    IN  IF max_q.t = "none"
        THEN IF q >= min_q THEN factor ELSE cur
        ELSE IF inclusive
             THEN IF q >= min_q /\ q <= max_q.n THEN factor ELSE cur
             ELSE IF q >= min_q /\ q < max_q.n THEN factor ELSE cur

BandApply(band, inclusive, q, cur) ==
    LET min_q == NumOr(band.min_qty, 0)
        max_q == band.max_qty
        factor == NumOr(band.factor, 100)
    IN  IF max_q.t = "none"
        THEN IF q >= min_q THEN factor ELSE cur
        ELSE IF inclusive
             THEN IF q >= min_q /\ q <= max_q.n THEN factor ELSE cur
             ELSE IF q >= min_q /\ q < max_q.n THEN factor ELSE cur

RECURSIVE TierLoop(_, _, _, _)
TierLoop(tiers, inclusive, q, cur) ==
    IF tiers = <<>> THEN cur
    ELSE TierLoop(Tail(tiers), inclusive, q, BandApply(Head(tiers), inclusive, q, cur))

\* The loop stopping at the first band that matches.
RECURSIVE TierLoopFirst(_, _, _, _)
TierLoopFirst(tiers, inclusive, q, cur) ==
    IF tiers = <<>> THEN cur
    ELSE LET b == Head(tiers)
             hit == IF b.max_qty.t = "none"
                    THEN q >= NumOr(b.min_qty, 0)
                    ELSE /\ q >= NumOr(b.min_qty, 0)
                         /\ IF inclusive THEN q <= b.max_qty.n ELSE q < b.max_qty.n
         IN  IF hit THEN NumOr(b.factor, 100)
             ELSE TierLoopFirst(Tail(tiers), inclusive, q, cur)

PolicyInclusive(policy) ==
    (IF policy.tier_boundary = None THEN "inclusive" ELSE policy.tier_boundary) = "inclusive"

unit_factor_first_match(policy, q) ==
    TierLoopFirst(policy.unit_tiers, PolicyInclusive(policy), q, 100)

unit_factor(policy, q) ==
    TierLoop(policy.unit_tiers, PolicyInclusive(policy), q, 100)

-----------------------------------------------------------------------------
(* Inputs of the unit_factor checks *)

BandMins == {Nil, Num(2)}
BandMaxs == {Nil, Num(MaxQty)}
BandFactors == {Nil, Num(0), Num(80), Num(95)}
Bands == [min_qty : BandMins, max_qty : BandMaxs, factor : BandFactors]

RECURSIVE SeqsUpTo(_, _)
SeqsUpTo(S, n) ==
    IF n = 0 THEN {<<>>}
    ELSE LET shorter == SeqsUpTo(S, n - 1)
         IN  shorter \cup {Append(s, x) : s \in {t \in shorter : Len(t) = n - 1}, x \in S}

TierLists == SeqsUpTo(Bands, MaxBands)
Boundaries == {None, "inclusive", "exclusive"}

NoGrid == [t |-> "none", rows |-> <<>>]

Policies == [unit_tiers : TierLists, tier_boundary : Boundaries,
             matrix_markups : {NoGrid}, base_markup : {Nil}]

EmptyCatalog == [controls |-> <<>>, rules |-> EmptyDict, parts |-> EmptyDict,
                 policy |-> [unit_tiers |-> <<>>, tier_boundary |-> None,
                             matrix_markups |-> NoGrid, base_markup |-> Nil]]

NotCalled == Returned(0)

NoTotals == [per_unit_parts_subtotal |-> 0, unit_factor |-> 0, per_unit_after_tier |-> 0,
             program_base |-> 0, markup_pct |-> 0, final_total |-> 0]

InitTier ==
    /\ catalog \in {[EmptyCatalog EXCEPT !.policy = p] : p \in Policies}
    /\ qty \in 1..MaxQty
    /\ form = EmptyDict
    /\ rc = <<0, 0>>
    /\ footprint_key = None
    /\ uf = 0
    /\ markup = NotCalled
    /\ dims = Returned(<<Nil, Nil>>)
    /\ resolved = [raised |-> "", parts |-> <<>>]
    /\ pc = "ready"
    /\ session_state = EmptyDict
    /\ totals = NoTotals
    /\ shown = "nothing"

CallUnitFactor ==
    /\ pc = "ready"
    /\ uf' = unit_factor(catalog.policy, qty)
    /\ pc' = "done"
    /\ UNCHANGED <<catalog, form, qty, rc, footprint_key, markup, dims, resolved, pageVars>>

NextTier == CallUnitFactor

SpecTier == InitTier /\ [][NextTier]_vars

-----------------------------------------------------------------------------
(* C4 and C5: unit_factor *)

\* The factor a band declares, 1.0 when it declares none.
DeclaredFactor(band) == IF band.factor.t = "none" THEN 100 ELSE band.factor.n

\* The factor unit_factor reads from a band: absent, null and 0 all read as 1.0.
FactorRead(band) == IF band.factor.t = "none" \/ band.factor.n = 0 THEN 100 ELSE band.factor.n

\* The claim's matching rule, from the boundary's name.
InBand(band, boundary, q) ==
    /\ q >= (IF band.min_qty.t = "none" THEN 0 ELSE band.min_qty.n)
    /\ \/ band.max_qty.t = "none"
       \/ boundary = "inclusive" /\ q <= band.max_qty.n
       \/ boundary = "exclusive" /\ q < band.max_qty.n

BoundaryOf(policy) == IF policy.tier_boundary = None THEN "inclusive" ELSE policy.tier_boundary

MatchingBands(policy, q) ==
    {i \in 1..Len(policy.unit_tiers) : InBand(policy.unit_tiers[i], BoundaryOf(policy), q)}

LastOf(S) == CHOOSE i \in S : \A j \in S : j <= i

\* C4 as stated: unit_factor returns the declared factor of the last band, in
\* catalog order, that matches qty, and 1.0 when no band matches.
C4_LastBandDeclaredFactor ==
    pc = "done" =>
        LET M == MatchingBands(catalog.policy, qty)
        IN  uf = IF M = {} THEN 100
                 ELSE DeclaredFactor(catalog.policy.unit_tiers[LastOf(M)])

\* C4 amended: unit_factor returns the factor of the last band, in catalog
\* order, that matches qty, a factor that is absent, null or 0 reading as 1.0,
\* and 1.0 when no band matches.
C4_LastMatchWins ==
    pc = "done" =>
        LET M == MatchingBands(catalog.policy, qty)
        IN  uf = IF M = {} THEN 100
                 ELSE FactorRead(catalog.policy.unit_tiers[LastOf(M)])

\* Two overlapping open-ended bands match and the later one's factor is returned.
C4_Witness ==
    /\ pc = "done"
    /\ LET t == catalog.policy.unit_tiers
       IN  /\ Len(t) = 2
           /\ t[1].max_qty.t = "none" /\ t[2].max_qty.t = "none"
           /\ MatchingBands(catalog.policy, qty) = {1, 2}
           /\ FactorRead(t[1]) = 95 /\ FactorRead(t[2]) = 80
           /\ uf = 80

\* C5: a band with a non-null max_qty matches qty iff min_qty <= qty <= max_qty
\* under "inclusive" and iff min_qty <= qty < max_qty under "exclusive": when
\* such a band is declared last, the result is its factor exactly when qty is
\* in that range, and otherwise what the bands before it give.
C5_TierBoundary ==
    pc = "done" =>
        LET p == catalog.policy
            t == p.unit_tiers
            n == Len(t)
        IN  (n >= 1 /\ t[n].max_qty.t = "int" /\ p.tier_boundary \in {"inclusive", "exclusive"}) =>
                LET lo == IF t[n].min_qty.t = "none" THEN 0 ELSE t[n].min_qty.n
                    hi == t[n].max_qty.n
                    inRange == IF p.tier_boundary = "inclusive"
                               THEN lo <= qty /\ qty <= hi
                               ELSE lo <= qty /\ qty < hi
                IN  IF inRange THEN uf = FactorRead(t[n])
                    ELSE uf = unit_factor([p EXCEPT !.unit_tiers = SubSeq(t, 1, n - 1)], qty)

\* qty equals max_qty of the only band and the band applies under "inclusive".
C5_Witness ==
    /\ pc = "done"
    /\ catalog.policy.tier_boundary = "inclusive"
    /\ Len(catalog.policy.unit_tiers) = 1
    /\ catalog.policy.unit_tiers[1].max_qty = Num(qty)
    /\ catalog.policy.unit_tiers[1].min_qty = Num(2)
    /\ catalog.policy.unit_tiers[1].factor = Num(80)
    /\ uf = 80

-----------------------------------------------------------------------------
(* app/pricing.py: matrix_markup_pct *)

GridDim == 3

\* A JSON value read as policy.matrix_markups: absent, a list of rows, or
\* something that is no list; a row is a list of cells or no list.
GridList(rows) == [t |-> "list", rows |-> rows]
NotAList == [t |-> "other", rows |-> <<>>]
RowList(cells) == [t |-> "list", cells |-> cells]
RowNotAList == [t |-> "other", cells |-> <<>>]

\* float(cell): a number itself, None a TypeError, a non-digit string a ValueError.
Float(v) ==
    IF v.t = "int" THEN Returned(v.n)
    ELSE IF v.t = "none" THEN Raised("TypeError")
    ELSE Raised("ValueError")

\* isinstance(grid, list) and len(grid) == 3 and all(isinstance(r, list) and len(r) == 3 ...)
GridShapeOk(grid) ==
    /\ grid.t = "list"
    /\ Len(grid.rows) = GridDim
    /\ \A i \in 1..Len(grid.rows) :
          grid.rows[i].t = "list" /\ Len(grid.rows[i].cells) = GridDim

\* A malformed grid silently defaulted to 0.35 instead of raising.
matrix_markup_pct_defaulting(policy, sel) ==
    LET grid == policy.matrix_markups
    IN  IF ~GridShapeOk(grid) THEN Returned(35)
        ELSE Float(grid.rows[sel[1] + 1].cells[sel[2] + 1])

matrix_markup_pct(policy, sel) ==
    LET grid == policy.matrix_markups
    IN  IF ~GridShapeOk(grid) THEN Raised("ValueError")
        ELSE Float(grid.rows[sel[1] + 1].cells[sel[2] + 1])

-----------------------------------------------------------------------------
(* Inputs of the matrix_markup_pct checks *)

MarkupRows ==
    { RowList(<<Num(25), Num(30), Num(35)>>),
      RowList(<<Num(30), Num(35), Num(40)>>),
      RowList(<<Num(35), Num(-10), Num(45)>>),
      RowList(<<Num(25), NonNumeric, Nil>>),
      RowList(<<Num(25), Num(30)>>),
      RowList(<<Num(25), Num(30), Num(35), Num(40)>>),
      RowNotAList }

MarkupGrids ==
    {NoGrid, NotAList} \cup
    {GridList(r) : r \in {x \in SeqsUpTo(MarkupRows, GridDim + 1) : Len(x) >= GridDim - 1}}

Cells == (0..(GridDim - 1)) \X (0..(GridDim - 1))

InitMarkup ==
    /\ catalog \in {[EmptyCatalog EXCEPT !.policy.matrix_markups = g] : g \in MarkupGrids}
    /\ rc \in Cells
    /\ qty = 1
    /\ form = EmptyDict
    /\ footprint_key = None
    /\ uf = 0
    /\ markup = NotCalled
    /\ dims = Returned(<<Nil, Nil>>)
    /\ resolved = [raised |-> "", parts |-> <<>>]
    /\ pc = "ready"
    /\ session_state = EmptyDict
    /\ totals = NoTotals
    /\ shown = "nothing"

CallMatrixMarkupPct ==
    /\ pc = "ready"
    /\ markup' = matrix_markup_pct(catalog.policy, rc)
    /\ pc' = "done"
    /\ UNCHANGED <<catalog, form, qty, rc, footprint_key, uf, dims, resolved, pageVars>>

NextMarkup == CallMatrixMarkupPct

SpecMarkup == InitMarkup /\ [][NextMarkup]_vars

-----------------------------------------------------------------------------
(* C6 and C7: matrix_markup_pct *)

\* The claim's shape: a list of exactly 3 rows, each a list of exactly 3 cells.
ThreeByThree(grid) ==
    /\ grid.t = "list"
    /\ Len(grid.rows) = 3
    /\ \A i \in 1..3 : grid.rows[i].t = "list" /\ Len(grid.rows[i].cells) = 3

SelectedCell == catalog.policy.matrix_markups.rows[rc[1] + 1].cells[rc[2] + 1]

\* C6: matrix_markup_pct raises, and returns no number, whenever
\* policy.matrix_markups is absent, is not a list of exactly 3 rows or has a row
\* that is not a list of exactly 3 cells; for a well-shaped grid of numbers it
\* returns grid[row][col].
C6_MarkupShape ==
    pc = "done" =>
        IF ThreeByThree(catalog.policy.matrix_markups)
        THEN SelectedCell.t = "int" => markup = Returned(SelectedCell.n)
        ELSE markup.raised # ""

\* A grid with a short row has raised, whichever cell was selected.
C6_Witness ==
    /\ pc = "done"
    /\ catalog.policy.matrix_markups.t = "list"
    /\ Len(catalog.policy.matrix_markups.rows) = 3
    /\ \E i \in 1..3 : catalog.policy.matrix_markups.rows[i] = RowList(<<Num(25), Num(30)>>)
    /\ catalog.policy.matrix_markups.rows[rc[1] + 1] = RowList(<<Num(25), Num(30), Num(35)>>)
    /\ markup.raised = "ValueError"

HasNegativeCell(grid) ==
    \E i \in 1..3 : \E j \in 1..3 :
        grid.rows[i].cells[j].t = "int" /\ grid.rows[i].cells[j].n < 0

\* C7: for a 3x3 grid with a negative cell, the selected one or any other,
\* matrix_markup_pct halts with a configuration error instead of returning a
\* number.
C7_NegativeMarkupFatal ==
    (pc = "done" /\ ThreeByThree(catalog.policy.matrix_markups)
                 /\ HasNegativeCell(catalog.policy.matrix_markups))
        => markup.raised # ""

-----------------------------------------------------------------------------
(* app/catalog.py: find_control, footprint_dims *)

\* An option's "dims": absent (or null, or {}), or a dict whose width_in and
\* depth_in are numbers or missing.
NoDims == [t |-> "none", width_in |-> Nil, depth_in |-> Nil]
Dims(w, d) == [t |-> "dict", width_in |-> w, depth_in |-> d]

NoControl == [id |-> None, type |-> None, options |-> <<>>, min |-> 0]

\* The first control with that id, NoControl (None) when there is none.
RECURSIVE find_control_in(_, _)
find_control_in(controls, control_id) ==
    IF controls = <<>> THEN NoControl
    ELSE IF Head(controls).id = control_id THEN Head(controls)
    ELSE find_control_in(Tail(controls), control_id)

find_control(cat, control_id) == find_control_in(cat.controls, control_id)

\* The loop over the footprint control's options: the first option with the key.
RECURSIVE DimsOfOption(_, _)
DimsOfOption(options, key) ==
    IF options = <<>> THEN Returned(<<Nil, Nil>>)
    ELSE IF Head(options).key = key
         THEN Returned(<<Head(options).dims.width_in, Head(options).dims.depth_in>>)
         ELSE DimsOfOption(Tail(options), key)

\* The lookup written as opt["dims"]["width_in"]: an option without dims raises.
RECURSIVE DimsOfOptionStrict(_, _)
DimsOfOptionStrict(options, key) ==
    IF options = <<>> THEN Returned(<<Nil, Nil>>)
    ELSE IF Head(options).key = key
         THEN IF Head(options).dims.t = "none" THEN [raised |-> "KeyError", val |-> <<Nil, Nil>>]
              ELSE Returned(<<Head(options).dims.width_in, Head(options).dims.depth_in>>)
         ELSE DimsOfOptionStrict(Tail(options), key)

footprint_dims_strict(cat, key) ==
    LET fp == find_control(cat, "footprint")
    IN  IF fp = NoControl THEN Returned(<<Nil, Nil>>)
        ELSE DimsOfOptionStrict(fp.options, key)

footprint_dims(cat, key) ==
    LET fp == find_control(cat, "footprint")
    IN  IF fp = NoControl THEN Returned(<<Nil, Nil>>)
        ELSE DimsOfOption(fp.options, key)

-----------------------------------------------------------------------------
(* Inputs of the footprint_dims checks *)

MaxOptions == 2

FootprintKeys == {"fp-24", "fp-36", "fp-48"}
DimsChoices == {NoDims, Dims(Num(24), Num(16)), Dims(Num(36), Nil)}
FootprintOptions == [key : FootprintKeys, dims : DimsChoices]

\* Option keys are unique within a control.
OptionLists ==
    {o \in SeqsUpTo(FootprintOptions, MaxOptions) :
        \A i \in 1..Len(o) : \A j \in 1..Len(o) : i # j => o[i].key # o[j].key}

SingleControl(id, options) == [id |-> id, type |-> "single", options |-> options, min |-> 0]
NumberControl(id, min) == [id |-> id, type |-> "number", options |-> <<>>, min |-> min]

HeaderControl ==
    SingleControl("header", << [key |-> "header-no", dims |-> NoDims],
                               [key |-> "header-yes", dims |-> NoDims] >>)

ControlLists ==
    {<<>>, <<HeaderControl>>} \cup
    UNION { { <<SingleControl("footprint", o)>>,
              <<HeaderControl, SingleControl("footprint", o)>>,
              <<SingleControl("footprint", o), HeaderControl>> } : o \in OptionLists }

InitDims ==
    /\ catalog \in {[EmptyCatalog EXCEPT !.controls = c] : c \in ControlLists}
    /\ footprint_key \in FootprintKeys \cup {None}
    /\ rc = <<0, 0>>
    /\ qty = 1
    /\ form = EmptyDict
    /\ uf = 0
    /\ markup = NotCalled
    /\ dims = Returned(<<Nil, Nil>>)
    /\ resolved = [raised |-> "", parts |-> <<>>]
    /\ pc = "ready"
    /\ session_state = EmptyDict
    /\ totals = NoTotals
    /\ shown = "nothing"

CallFootprintDims ==
    /\ pc = "ready"
    /\ dims' = footprint_dims(catalog, footprint_key)
    /\ pc' = "done"
    /\ UNCHANGED <<catalog, form, qty, rc, footprint_key, uf, markup, resolved, pageVars>>

NextDims == CallFootprintDims

SpecDims == InitDims /\ [][NextDims]_vars

-----------------------------------------------------------------------------
(* C10: footprint_dims *)

FootprintControlAt(i) == catalog.controls[i].id = "footprint"
OptionAt(i, k) == catalog.controls[i].options[k]

\* C10: footprint_dims never raises; it returns (width_in, depth_in) of the
\* footprint control's option whose key is the argument, and (null, null)
\* when there is no control with id "footprint", no option with that key, or
\* no dims on the matching option.
C10_FootprintDims ==
    pc = "done" =>
        /\ dims.raised = ""
        /\ \A i \in 1..Len(catalog.controls) :
              FootprintControlAt(i) =>
                 \A k \in 1..Len(catalog.controls[i].options) :
                    OptionAt(i, k).key = footprint_key =>
                       dims.val = IF OptionAt(i, k).dims.t = "none" THEN <<Nil, Nil>>
                                  ELSE <<OptionAt(i, k).dims.width_in, OptionAt(i, k).dims.depth_in>>
        /\ (~\E i \in 1..Len(catalog.controls) : FootprintControlAt(i)) => dims.val = <<Nil, Nil>>
        /\ (\A i \in 1..Len(catalog.controls) :
               \A k \in 1..Len(catalog.controls[i].options) :
                  FootprintControlAt(i) => OptionAt(i, k).key # footprint_key)
              => dims.val = <<Nil, Nil>>

\* The matching option is the second one and carries dims: they are returned.
C10_Witness ==
    /\ pc = "done"
    /\ Len(catalog.controls) = 2
    /\ FootprintControlAt(2)
    /\ Len(catalog.controls[2].options) = 2
    /\ OptionAt(2, 2).key = footprint_key
    /\ OptionAt(2, 2).dims = Dims(Num(24), Num(16))
    /\ dims = Returned(<<Num(24), Num(16)>>)

-----------------------------------------------------------------------------
(* app/pricing.py: resolve_parts_per_unit *)

Digit(d) ==
    CASE d = 0 -> "0" [] d = 1 -> "1" [] d = 2 -> "2" [] d = 3 -> "3" [] d = 4 -> "4"
      [] d = 5 -> "5" [] d = 6 -> "6" [] d = 7 -> "7" [] d = 8 -> "8" [] d = 9 -> "9"

\* str(n) of a non-negative int.
RECURSIVE Str(_)
Str(n) == IF n < 10 THEN Digit(n) ELSE Str(n \div 10) \o Digit(n % 10)

\* What the function has built so far: the list, or the exception that ended it.
NoParts == [raised |-> "", parts |-> <<>>]

\* resolved.append((part, q))
AppendLineMerging(acc, part, q) ==
    IF \E i \in 1..Len(acc.parts) : acc.parts[i][1] = part
    THEN [acc EXCEPT !.parts = [i \in 1..Len(acc.parts) |->
                IF acc.parts[i][1] = part THEN <<part, acc.parts[i][2] + q>> ELSE acc.parts[i]]]
    ELSE [acc EXCEPT !.parts = Append(@, <<part, q>>)]

AppendLine(acc, part, q) == [acc EXCEPT !.parts = Append(@, <<part, q>>)]

FormGet(frm, k) == MapGet(frm, k, None)

FootprintBaseStep(rules, frm, fdims, acc) ==
    LET fp_key == FormGet(frm, "footprint")
    IN  IF acc.raised # "" THEN acc
        ELSE IF TruthyStr(fp_key) /\ "resolve_footprint_base" \in DOMAIN rules
        THEN LET r == rules["resolve_footprint_base"]
                 base_part == MapGet(r.map, fp_key, None)
             IN  IF TruthyStr(base_part) THEN AppendLine(acc, base_part, 1) ELSE acc
        ELSE acc

\* The header block appending only when the when-condition holds.
HeaderStepWhenOnly(rules, frm, fdims, acc) ==
    IF acc.raised # "" THEN acc
    ELSE IF "resolve_header" \in DOMAIN rules
    THEN LET r == rules["resolve_header"]
             width_in == fdims[1]
             part == IF r.match_on_dim = "width_in" /\ width_in.t # "none"
                     THEN MapGet(r.map, Str(width_in.n), r.else)
                     ELSE r.else
         IN  IF FormGet(frm, r.when_control) = r.when_value /\ TruthyStr(part)
             THEN AppendLine(acc, part, 1) ELSE acc
    ELSE acc

HeaderStep(rules, frm, fdims, acc) ==
    IF acc.raised # "" THEN acc
    ELSE IF "resolve_header" \in DOMAIN rules
    THEN LET r == rules["resolve_header"]
             width_in == fdims[1]
             part == IF /\ FormGet(frm, r.when_control) = r.when_value
                        /\ r.match_on_dim = "width_in"
                        /\ width_in.t # "none"
                     THEN MapGet(r.map, Str(width_in.n), r.else)
                     ELSE r.else
         IN  IF TruthyStr(part) THEN AppendLine(acc, part, 1) ELSE acc
    ELSE acc

\* The dividers block falling back to rule.else when the depth is unknown.
DividersStepElseAlone(rules, frm, fdims, acc) ==
    IF acc.raised # "" THEN acc
    ELSE IF "resolve_dividers" \in DOMAIN rules
    THEN LET r == rules["resolve_dividers"]
             depth_in == fdims[2]
             dqty == IntOrZero(MapGet(frm, r.quantity_control, Num(0)))
         IN  IF dqty.raised # "" THEN [acc EXCEPT !.raised = dqty.raised]
             ELSE IF dqty.val > 0
             THEN LET part == IF r.match_on_dim = "depth_in" /\ depth_in.t # "none"
                              THEN MapGet(r.map, Str(depth_in.n), r.else)
                              ELSE r.else
                  IN  IF TruthyStr(part) THEN AppendLine(acc, part, dqty.val) ELSE acc
             ELSE acc
    ELSE acc

DividersStep(rules, frm, fdims, acc) ==
    IF acc.raised # "" THEN acc
    ELSE IF "resolve_dividers" \in DOMAIN rules
    THEN LET r == rules["resolve_dividers"]
             depth_in == fdims[2]
             dqty == IntOrZero(MapGet(frm, r.quantity_control, Num(0)))
         IN  IF dqty.raised # "" THEN [acc EXCEPT !.raised = dqty.raised]
             ELSE IF dqty.val > 0 /\ r.match_on_dim = "depth_in" /\ depth_in.t # "none"
             THEN LET part == MapGet(r.map, Str(depth_in.n), r.else)
                  IN  IF TruthyStr(part) THEN AppendLine(acc, part, dqty.val) ELSE acc
             ELSE acc
    ELSE acc

\* The shipper block assigning the list instead of appending to it.
ShipperStepAssigning(rules, frm, fdims, acc) ==
    IF acc.raised # "" THEN acc
    ELSE IF "resolve_shipper" \in DOMAIN rules
    THEN LET r == rules["resolve_shipper"]
             part == MapGet(r.map, FormGet(frm, "footprint"), r.else)
         IN  IF FormGet(frm, r.when_control) = r.when_value /\ TruthyStr(part)
             THEN [acc EXCEPT !.parts = <<<<part, 1>>>>]
             ELSE acc
    ELSE acc

ShipperStep(rules, frm, fdims, acc) ==
    IF acc.raised # "" THEN acc
    ELSE IF "resolve_shipper" \in DOMAIN rules
    THEN LET r == rules["resolve_shipper"]
             part == MapGet(r.map, FormGet(frm, "footprint"), r.else)
         IN  IF FormGet(frm, r.when_control) = r.when_value /\ TruthyStr(part)
             THEN AppendLine(acc, part, 1)
             ELSE acc
    ELSE acc

\* The assembly-touches block comparing with > instead of >=.
AssemblyTouchesStepAbove(rules, frm, fdims, acc) ==
    IF acc.raised # "" THEN acc
    ELSE IF "resolve_assembly_touches" \in DOMAIN rules
    THEN LET r == rules["resolve_assembly_touches"]
         IN  IF FormGet(frm, r.when_control) = r.when_value
             THEN LET tqty == IntOrZero(MapGet(frm, r.quantity_control, Num(0)))
                  IN  IF tqty.raised # "" THEN [acc EXCEPT !.raised = tqty.raised]
                      ELSE IF tqty.val > NumOr(r.min_quantity, 1) /\ TruthyStr(r.part)
                      THEN AppendLine(acc, r.part, tqty.val)
                      ELSE acc
             ELSE acc
    ELSE acc

\* The assembly-touches block reading min_quantity without "or 1".
AssemblyTouchesStepDeclaredMin(rules, frm, fdims, acc) ==
    IF acc.raised # "" THEN acc
    ELSE IF "resolve_assembly_touches" \in DOMAIN rules
    THEN LET r == rules["resolve_assembly_touches"]
             min_quantity == IF r.min_quantity.t = "none" THEN 1 ELSE r.min_quantity.n
         IN  IF FormGet(frm, r.when_control) = r.when_value
             THEN LET tqty == IntOrZero(MapGet(frm, r.quantity_control, Num(0)))
                  IN  IF tqty.raised # "" THEN [acc EXCEPT !.raised = tqty.raised]
                      ELSE IF tqty.val >= min_quantity /\ TruthyStr(r.part)
                      THEN AppendLine(acc, r.part, tqty.val)
                      ELSE acc
             ELSE acc
    ELSE acc

AssemblyTouchesStep(rules, frm, fdims, acc) ==
    IF acc.raised # "" THEN acc
    ELSE IF "resolve_assembly_touches" \in DOMAIN rules
    THEN LET r == rules["resolve_assembly_touches"]
         IN  IF FormGet(frm, r.when_control) = r.when_value
             THEN LET tqty == IntOrZero(MapGet(frm, r.quantity_control, Num(0)))
                  IN  IF tqty.raised # "" THEN [acc EXCEPT !.raised = tqty.raised]
                      ELSE IF tqty.val >= NumOr(r.min_quantity, 1) /\ TruthyStr(r.part)
                      THEN AppendLine(acc, r.part, tqty.val)
                      ELSE acc
             ELSE acc
    ELSE acc

PrintedInsideStep(rules, frm, fdims, acc) ==
    IF acc.raised # "" THEN acc
    ELSE IF "resolve_printed_inside" \in DOMAIN rules
    THEN LET r == rules["resolve_printed_inside"]
             selected == FormGet(frm, r.based_on_control)
             part == MapGet(r.map, selected, None)
         IN  IF TruthyStr(part) THEN AppendLine(acc, part, 1) ELSE acc
    ELSE acc

resolve_parts_per_unit(cat, frm, fdims) ==
    LET rules == cat.rules
        a1 == FootprintBaseStep(rules, frm, fdims, NoParts)
        a2 == HeaderStep(rules, frm, fdims, a1)
        a3 == DividersStep(rules, frm, fdims, a2)
        a4 == ShipperStep(rules, frm, fdims, a3)
        a5 == AssemblyTouchesStep(rules, frm, fdims, a4)
        a6 == PrintedInsideStep(rules, frm, fdims, a5)
    IN  IF a6.raised # "" THEN [raised |-> a6.raised, parts |-> <<>>] ELSE a6

-----------------------------------------------------------------------------
(* Inputs of the resolve_parts_per_unit checks *)

MaxCount == 2

RuleOrder == << "resolve_footprint_base", "resolve_header", "resolve_dividers",
                "resolve_shipper", "resolve_assembly_touches", "resolve_printed_inside" >>
RuleNames == {RuleOrder[i] : i \in 1..Len(RuleOrder)}

StrMap(k, v) == [x \in {k} |-> v]

\* Six catalogs' rules: the usual shapes, and shapes with keys left out, a
\* part key shared by two rules, min_quantity absent, 0, above 1 or negative,
\* and an assembly-touches rule that names no part.
RuleSpec(profile, name) ==
    CASE name = "resolve_footprint_base" ->
            [map |-> StrMap("fp-24", "base-24")]
      [] name = "resolve_header" ->
            [when_control |-> "header", when_value |-> "header-yes",
             match_on_dim |-> IF profile = 2 THEN None ELSE "width_in",
             map |-> StrMap("24", "header-24"),
             else |-> CASE profile = 3 -> None [] profile = 4 -> "shipper-std"
                        [] OTHER -> "header-std"]
      [] name = "resolve_dividers" ->
            [quantity_control |-> "divider_count",
             match_on_dim |-> IF profile = 3 THEN None ELSE "depth_in",
             map |-> StrMap("16", "divider-16"),
             else |-> IF profile = 2 THEN None ELSE "divider-std"]
      [] name = "resolve_shipper" ->
            [when_control |-> "shipper", when_value |-> "shipper-yes",
             map |-> StrMap("fp-24", IF profile = 2 THEN "base-24" ELSE "shipper-24"),
             else |-> CASE profile = 2 -> None [] profile = 3 -> "print-in"
                        [] OTHER -> "shipper-std"]
      [] name = "resolve_assembly_touches" ->
            [when_control |-> "assembly", when_value |-> "assembly-turnkey",
             quantity_control |-> "product_touches",
             min_quantity |-> CASE profile = 2 -> Nil [] profile = 3 -> Num(0)
                                [] profile = 4 -> Num(2) [] profile = 5 -> Num(0 - 1)
                                [] OTHER -> Num(1),
             part |-> IF profile = 6 THEN None ELSE "touch"]
      [] name = "resolve_printed_inside" ->
            [based_on_control |-> "printed_inside",
             map |-> StrMap("printed-yes", "print-in")]

Profiles == 1..6

AllRules(profile) == [name \in RuleNames |-> RuleSpec(profile, name)]

FootprintControl ==
    SingleControl("footprint", << [key |-> "fp-24", dims |-> Dims(Num(24), Num(16))],
                                  [key |-> "fp-36", dims |-> Dims(Num(36), Num(20))] >>)

ResolveCatalog(profile) ==
    [EmptyCatalog EXCEPT !.controls = <<FootprintControl, HeaderControl>>,
                         !.rules = AllRules(profile)]

\* A form field left out of the dict.
Missing == [t |-> "missing", n |-> 0]

CountChoices == {Missing, Nil, NonNumeric} \cup {Num(n) : n \in (0 - 1)..MaxCount}

FormChoices ==
    [footprint : {None, "fp-24", "fp-36"},
     header : {None, "header-yes"},
     shipper : {None, "shipper-yes"},
     assembly : {"assembly-kdf", "assembly-turnkey"},
     printed_inside : {None, "printed-yes"},
     divider_count : CountChoices,
     product_touches : CountChoices]

OptionFields == {"footprint", "header", "shipper", "assembly", "printed_inside"}
CountFields == {"divider_count", "product_touches"}

\* The dict holding the chosen fields: a field chosen None or Missing has no key.
MkForm(c) ==
    [k \in {f \in OptionFields : c[f] # None} \cup {f \in CountFields : c[f] # Missing} |-> c[k]]

Forms == {MkForm(c) : c \in FormChoices}

InitResolve ==
    /\ catalog \in {ResolveCatalog(p) : p \in Profiles}
    /\ form \in Forms
    /\ footprint_key = None
    /\ rc = <<0, 0>>
    /\ qty = 1
    /\ uf = 0
    /\ markup = NotCalled
    /\ dims = Returned(<<Nil, Nil>>)
    /\ resolved = NoParts
    /\ pc = "ready"
    /\ session_state = EmptyDict
    /\ totals = NoTotals
    /\ shown = "nothing"

\* The caller: dims of the form's footprint, then the rules.
ResolveNow(cat, frm) ==
    resolve_parts_per_unit(cat, frm, footprint_dims(cat, FormGet(frm, "footprint")).val)

CallResolve ==
    /\ pc = "ready"
    /\ resolved' = ResolveNow(catalog, form)
    /\ pc' = "done"
    /\ UNCHANGED <<catalog, form, qty, rc, footprint_key, uf, markup, dims, pageVars>>

WithoutRule(cat, name) ==
    [cat EXCEPT !.rules = [n \in (DOMAIN cat.rules) \ {name} |-> cat.rules[n]]]

\* A rule key is taken out of catalog.rules and the same form is resolved again.
RemoveRule(name) ==
    /\ pc = "done"
    /\ name \in DOMAIN catalog.rules
    /\ catalog' = WithoutRule(catalog, name)
    /\ resolved' = ResolveNow(catalog', form)
    /\ UNCHANGED <<form, qty, rc, footprint_key, uf, markup, dims, pc, pageVars>>

NextResolve == CallResolve \/ \E name \in RuleNames : RemoveRule(name)

SpecResolve == InitResolve /\ [][NextResolve]_vars

-----------------------------------------------------------------------------
(* C1, C2 and C3: resolve_parts_per_unit *)

FormDims == footprint_dims(catalog, FormGet(form, "footprint")).val

\* What one rule alone adds to an empty list.
Contribution(name) ==
    LET out == CASE name = "resolve_footprint_base" ->
                        FootprintBaseStep(catalog.rules, form, FormDims, NoParts)
                 [] name = "resolve_header" ->
                        HeaderStep(catalog.rules, form, FormDims, NoParts)
                 [] name = "resolve_dividers" ->
                        DividersStep(catalog.rules, form, FormDims, NoParts)
                 [] name = "resolve_shipper" ->
                        ShipperStep(catalog.rules, form, FormDims, NoParts)
                 [] name = "resolve_assembly_touches" ->
                        AssemblyTouchesStep(catalog.rules, form, FormDims, NoParts)
                 [] name = "resolve_printed_inside" ->
                        PrintedInsideStep(catalog.rules, form, FormDims, NoParts)
    IN  out.parts

\* C1: the returned list is the concatenation, in the order footprint base,
\* header, dividers, shipper, assembly touches, printed inside, of what each
\* rule contributes; a rule contributes at most one pair, a rule absent from
\* catalog.rules none, and equal part keys from two rules stay two lines.
C1_Concatenation ==
    (pc = "done" /\ resolved.raised = "") =>
        /\ resolved.parts =
              Contribution("resolve_footprint_base") \o Contribution("resolve_header")
                 \o Contribution("resolve_dividers") \o Contribution("resolve_shipper")
                 \o Contribution("resolve_assembly_touches")
                 \o Contribution("resolve_printed_inside")
        /\ \A name \in RuleNames :
              /\ Len(Contribution(name)) <= 1
              /\ name \notin DOMAIN catalog.rules => Contribution(name) = <<>>
        /\ Len(resolved.parts) = Cardinality({name \in RuleNames : Contribution(name) # <<>>})

\* Footprint base and shipper both emit base-24 and the list holds both lines.
C1_Witness ==
    /\ pc = "done"
    /\ resolved.raised = ""
    /\ DOMAIN catalog.rules = RuleNames
    /\ \E i \in 1..Len(resolved.parts) : \E j \in 1..Len(resolved.parts) :
          /\ i < j
          /\ resolved.parts[i] = <<"base-24", 1>>
          /\ resolved.parts[j] = <<"base-24", 1>>

RemoveAt(seq, p) == SubSeq(seq, 1, p - 1) \o SubSeq(seq, p + 1, Len(seq))

\* C2: taking resolve_shipper out of catalog.rules changes the output for the
\* same form only by deleting the shipper's line, if it fired; the other
\* rules' pairs and their order stay.
C2_RuleIndependence ==
    [][ ( /\ pc = "done"
          /\ resolved.raised = ""
          /\ "resolve_shipper" \in DOMAIN catalog.rules
          /\ "resolve_shipper" \notin DOMAIN catalog'.rules )
        => LET r == catalog.rules["resolve_shipper"]
               part == MapGet(r.map, FormGet(form, "footprint"), r.else)
               fired == FormGet(form, r.when_control) = r.when_value /\ TruthyStr(part)
           IN  /\ resolved'.raised = ""
               /\ IF fired
                  THEN \E p \in 1..Len(resolved.parts) :
                          /\ resolved.parts[p] = <<part, 1>>
                          /\ resolved'.parts = RemoveAt(resolved.parts, p)
                  ELSE resolved'.parts = resolved.parts
      ]_vars

\* The shipper rule has been removed from a catalog whose form asks for a
\* shipper, and the other five rules still resolve lines.
C2_Witness ==
    /\ pc = "done"
    /\ DOMAIN catalog.rules = RuleNames \ {"resolve_shipper"}
    /\ FormGet(form, "shipper") = "shipper-yes"
    /\ FormGet(form, "footprint") = "fp-24"
    /\ resolved.raised = ""
    /\ Len(resolved.parts) = 5

\* The form with every non-numeric quantity replaced by 0.
ZeroedForm == [k \in DOMAIN form |->
                  IF k \in CountFields /\ form[k] = NonNumeric THEN Num(0) ELSE form[k]]

\* C3: numeric reads from the form never raise, and a non-numeric value under
\* a rule's quantity_control counts as quantity 0.
C3_NumericReadsNeverRaise ==
    pc = "done" =>
        /\ resolved.raised = ""
        /\ resolved = ResolveNow(catalog, ZeroedForm)

-----------------------------------------------------------------------------
(* pages/Display.py: helpers *)

DictSet(d, k, v) == [x \in (DOMAIN d) \cup {k} |-> IF x = k THEN v ELSE d[x]]
DictPop(d, k) == [x \in (DOMAIN d) \ {k} |-> d[x]]

Max(a, b) == IF a >= b THEN a ELSE b

\* list.index(x): the first position holding x.
FirstIndex(seq, x) ==
    CHOOSE i \in 1..Len(seq) : seq[i] = x /\ \A j \in 1..(i - 1) : seq[j] # x

\* The tiles scan_pngs finds: key = f"{cat}/{stem}".
TileKey(tile) == tile.category \o "/" \o tile.stem
Tiles == { [category |-> "pdq", stem |-> "digital_pdq_tray"],
           [category |-> "pdq", stem |-> "standard_pdq_tray"],
           [category |-> "dumpbin", stem |-> "dump_bin"] }

\* selected_key.startswith("pdq/"), for the key of a tile.
StartsWithPdq(key) == \E t \in Tiles : key = TileKey(t) /\ t.category = "pdq"

\* The options of the footprint control carry their dims; one declared without
\* dims is read as (None, None).
_footprint_dims(cat, key) ==
    LET fp == find_control_in(cat.controls, "footprint")
    IN  IF fp = NoControl THEN <<Nil, Nil>> ELSE DimsOfOption(fp.options, key).val

\* float(base_value or 0), 0.0 when the part or the value is missing or float() raises.
_parts_value(cat, part_key) ==
    IF part_key \in DOMAIN cat.parts
    THEN LET v == cat.parts[part_key].base_value
         IN  IF v.t = "int" THEN v.n ELSE 0
    ELSE 0

\* A keyed widget returns its state in st.session_state when it has one, and
\* the value its index/value argument names when it is new.
WidgetValue(ss, key, default) == IF key \in DOMAIN ss THEN ss[key] ELSE default

WidgetKey(cid) == "pdq__" \o cid

SkippedControls == {"unit_weight_unit", "unit_weight_value", "complexity_level"}
IntControls == {"quantity", "divider_count", "product_touches"}

OptionKeys(ctrl) == [i \in 1..Len(ctrl.options) |-> ctrl.options[i].key]
OptionLabels(ctrl) == [i \in 1..Len(ctrl.options) |-> ctrl.options[i].label]

\* One pass of the loop over catalog.controls; w holds the form and the
\* widgets rendered so far.
WalkControl(ctrl, ss, w) ==
    LET cid == ctrl.id
        key == WidgetKey(cid)
    IN  IF cid \in SkippedControls THEN w
        ELSE IF cid = "product_touches" /\ FormGet(w.form, "assembly") # "assembly-turnkey"
        THEN [w EXCEPT !.form = DictPop(@, "product_touches")]
        ELSE IF ctrl.type = "single"
        THEN LET labels == OptionLabels(ctrl)
                 keys == OptionKeys(ctrl)
                 default_idx ==
                     IF cid \in DOMAIN w.form /\ \E i \in 1..Len(keys) : keys[i] = w.form[cid]
                     THEN FirstIndex(keys, w.form[cid])
                     ELSE 1
                 choice == WidgetValue(ss, key, labels[default_idx])
             IN  [form |-> DictSet(w.form, cid, keys[FirstIndex(labels, choice)]),
                  widgets |-> DictSet(w.widgets, key, choice)]
        ELSE IF ctrl.type = "number" /\ cid \in IntControls
        THEN LET min_v == ctrl.min
                 saved == MapGet(w.form, cid, Nil)
                 default ==
                     IF saved.t # "none" THEN saved.n
                     ELSE IF cid = "quantity" THEN Max(1, min_v)
                     ELSE min_v
                 val == WidgetValue(ss, key, default)
             IN  [form |-> DictSet(w.form, cid, Num(val)),
                  widgets |-> DictSet(w.widgets, key, val)]
        ELSE IF ctrl.type = "number"
        THEN LET saved == MapGet(w.form, cid, Nil)
                 val == WidgetValue(ss, key, IF saved.t # "none" THEN saved.n ELSE ctrl.min)
             IN  [form |-> DictSet(w.form, cid, Num(val)),
                  widgets |-> DictSet(w.widgets, key, val)]
        ELSE w

\* for ctrl in controls (w0 is bound once, so each control is walked once).
RECURSIVE Walk(_, _, _)
Walk(controls, ss, w0) ==
    IF controls = <<>> THEN w0
    ELSE LET after == {WalkControl(Head(controls), ss, w) : w \in {w0}}
         IN  Walk(Tail(controls), ss, CHOOSE w \in after : TRUE)

weight_tiers == <<"0-5 lb", "5-10 lb", "10+ lb">>
complexity_levels == <<"Low", "Medium", "High">>

GridKey(wi, ci) == weight_tiers[wi + 1] \o "_" \o complexity_levels[ci + 1]

\* The placeholder factors of the page, in hundredths.
GridFactorAt(wi, ci) ==
    CASE wi + ci = 0 -> 100 [] wi + ci = 1 -> 105 [] wi + ci = 2 -> 110
      [] wi + ci = 3 -> 115 [] wi + ci = 4 -> 120

grid_factors ==
    [k \in {GridKey(wi, ci) : wi \in 0..2, ci \in 0..2} |->
        LET cell == CHOOSE c \in (0..2) \X (0..2) : GridKey(c[1], c[2]) = k
        IN  GridFactorAt(cell[1], cell[2])]

\* render_weight_complexity_matrix: the selection after this run's click, if any.
MatrixSelection(ss, ev) ==
    IF ev.t = "cell" THEN GridKey(ev.wi, ev.ci)
    ELSE MapGet(ss, "selected_grid", None)

-----------------------------------------------------------------------------
(* pages/Display.py: render_pdq_form, the resolution and the totals *)

\* The rules resolved inline by the page (no printed-inside block here),
\* one operator per block; acc holds the parts resolved so far.
InlineFootprintBase(rules, fp_key, acc) ==
    IF "resolve_footprint_base" \in DOMAIN rules /\ TruthyStr(fp_key)
    THEN LET base_part == MapGet(rules["resolve_footprint_base"].map, fp_key, None)
         IN  IF TruthyStr(base_part) THEN AppendLine(acc, base_part, 1) ELSE acc
    ELSE acc

InlineHeader(rules, frm, width_in, acc) ==
    IF "resolve_header" \in DOMAIN rules
    THEN LET r == rules["resolve_header"]
             part == IF FormGet(frm, r.when_control) = r.when_value
                     THEN IF r.match_on_dim = "width_in" /\ width_in.t # "none"
                          THEN MapGet(r.map, Str(width_in.n), r.else)
                          ELSE r.else
                     ELSE r.else
         IN  IF TruthyStr(part) THEN AppendLine(acc, part, 1) ELSE acc
    ELSE acc

InlineDividers(rules, frm, depth_in, acc) ==
    IF "resolve_dividers" \in DOMAIN rules
    THEN LET r == rules["resolve_dividers"]
             dqty == IntOrZero(MapGet(frm, r.quantity_control, Num(0)))
         IN  IF dqty.raised # "" THEN [acc EXCEPT !.raised = dqty.raised]
             ELSE LET part == IF /\ dqty.val > 0
                                 /\ r.match_on_dim = "depth_in"
                                 /\ depth_in.t # "none"
                              THEN MapGet(r.map, Str(depth_in.n), r.else)
                              ELSE None
                  IN  IF TruthyStr(part) /\ dqty.val > 0
                      THEN AppendLine(acc, part, dqty.val) ELSE acc
    ELSE acc

InlineShipper(rules, frm, fp_key, acc) ==
    IF acc.raised = "" /\ "resolve_shipper" \in DOMAIN rules
    THEN LET r == rules["resolve_shipper"]
             part == MapGet(r.map, fp_key, r.else)
         IN  IF FormGet(frm, r.when_control) = r.when_value /\ TruthyStr(part)
             THEN AppendLine(acc, part, 1) ELSE acc
    ELSE acc

InlineAssemblyTouches(rules, frm, acc) ==
    IF acc.raised = "" /\ "resolve_assembly_touches" \in DOMAIN rules
    THEN LET r == rules["resolve_assembly_touches"]
         IN  IF FormGet(frm, r.when_control) = r.when_value
             THEN LET tqty == IntOrZero(MapGet(frm, r.quantity_control, Num(0)))
                      min_quantity == IF r.min_quantity.t = "none" THEN 1
                                      ELSE r.min_quantity.n
                  IN  IF tqty.raised # "" THEN [acc EXCEPT !.raised = tqty.raised]
                      ELSE IF tqty.val >= min_quantity /\ TruthyStr(r.part)
                      THEN AppendLine(acc, r.part, tqty.val) ELSE acc
             ELSE acc
    ELSE acc

\* An exception leaves the run without resolved parts.
InlineOutcome(acc) ==
    IF acc.raised # "" THEN [raised |-> acc.raised, parts |-> <<>>] ELSE acc

InlineResolve(cat, frm) ==
    LET rules == cat.rules
        fp_key == FormGet(frm, "footprint")
        fdims == IF TruthyStr(fp_key) THEN _footprint_dims(cat, fp_key) ELSE <<Nil, Nil>>
    IN  InlineOutcome(
          InlineAssemblyTouches(rules, frm,
            InlineShipper(rules, frm, fp_key,
              InlineDividers(rules, frm, fdims[2],
                InlineHeader(rules, frm, fdims[1],
                  InlineFootprintBase(rules, fp_key, NoParts))))))

\* The page's own tier loop: min_qty and factor are read without "or".
RECURSIVE InlineTierLoop(_, _, _, _)
InlineTierLoop(tiers, policy, q, cur) ==
    IF tiers = <<>> THEN cur
    ELSE LET band == Head(tiers)
             min_q == IF band.min_qty.t = "none" THEN 0 ELSE band.min_qty.n
             max_q == band.max_qty
             factor == IF band.factor.t = "none" THEN 100 ELSE band.factor.n
             hit == IF max_q.t = "none" THEN q >= min_q
                    ELSE IF PolicyInclusive(policy) THEN q >= min_q /\ q <= max_q.n
                    ELSE q >= min_q /\ q < max_q.n
         IN  InlineTierLoop(Tail(tiers), policy, q, IF hit THEN factor ELSE cur)

RECURSIVE PartsSubtotal(_, _)
PartsSubtotal(cat, parts) ==
    IF parts = <<>> THEN 0
    ELSE _parts_value(cat, Head(parts)[1]) * Head(parts)[2] + PartsSubtotal(cat, Tail(parts))

\* Units: per_unit_parts_subtotal in dollars; unit_factor in 1/100;
\* per_unit_after_tier and program_base in dollars/100; markup_pct in 1/10000;
\* final_total in dollars/1000000.
PageTotals(cat, frm, parts, selected_grid) ==
    LET policy == cat.policy
        q == NumOr(MapGet(frm, "quantity", Num(1)), 1)
        unit_f == InlineTierLoop(policy.unit_tiers, policy, q, 100)
        base_markup == IF policy.base_markup.t = "none" THEN 35 ELSE policy.base_markup.n
        grid_factor == IF TruthyStr(selected_grid) THEN MapGet(grid_factors, selected_grid, 100)
                       ELSE 100
        markup_p == base_markup * grid_factor
        subtotal == PartsSubtotal(cat, parts)
        after_tier == subtotal * unit_f
        program_b == after_tier * q
    IN  [per_unit_parts_subtotal |-> subtotal, unit_factor |-> unit_f,
         per_unit_after_tier |-> after_tier, program_base |-> program_b,
         markup_pct |-> markup_p, final_total |-> program_b * (10000 + markup_p)]

SessionKeys == {"selected_display_key", "form", "selected_grid"}

\* st.session_state after a run: the script's own keys and the state of the
\* widgets the run rendered (the state of a widget that was not rendered is dropped).
AfterRun(ss, widgets) ==
    [k \in ((DOMAIN ss) \cap SessionKeys) \cup DOMAIN widgets |->
        IF k \in DOMAIN widgets THEN widgets[k] ELSE ss[k]]

\* Lines 391-472, after the walk over the controls left the form in w.
ResolveAndTotal(cat, ss, ev, w) ==
    LET selected_grid == MatrixSelection(ss, ev)
        ss1 == DictSet(DictSet(ss, "form", w.form), "selected_grid", selected_grid)
        outs == { [ss |-> AfterRun(ss1, w.widgets),
                   resolved |-> res,
                   totals |-> IF res.raised = ""
                              THEN PageTotals(cat, w.form, res.parts, selected_grid)
                              ELSE NoTotals,
                   shown |-> IF res.raised = "" THEN "pdq" ELSE "exception"]
                  : res \in {InlineResolve(cat, w.form)} }
    IN  CHOOSE out \in outs : TRUE

render_pdq_form(cat, ss, ev) ==
    LET form0 == IF "form" \in DOMAIN ss THEN ss["form"] ELSE EmptyDict
        outs == { ResolveAndTotal(cat, ss, ev, w)
                  : w \in {Walk(cat.controls, ss, [form |-> form0, widgets |-> EmptyDict])} }
    IN  CHOOSE out \in outs : TRUE

NoEvent == [t |-> "none"]

\* One run of the script: the gallery (a Select click sets the key), the router.
Run(cat, ss, ev) ==
    LET ss1 == IF ev.t = "select" THEN DictSet(ss, "selected_display_key", ev.key) ELSE ss
        selected_key == MapGet(ss1, "selected_display_key", None)
    IN  IF StartsWithPdq(selected_key) THEN render_pdq_form(cat, ss1, ev)
        ELSE [ss |-> AfterRun(ss1, EmptyDict), resolved |-> NoParts, totals |-> NoTotals,
              shown |-> IF TruthyStr(selected_key) THEN "soon" ELSE "prompt"]

-----------------------------------------------------------------------------
(* The Display page as a state machine: one action per user interaction,
   each followed by the whole rerun of the script *)

Option(key, label, d) == [key |-> key, label |-> label, dims |-> d]

\* A control the catalog declares with "required": true.
Required(ctrl) ==
    [k \in (DOMAIN ctrl) \cup {"required"} |-> IF k = "required" THEN TRUE ELSE ctrl[k]]

PageFootprint ==
    Required(SingleControl("footprint",
                           << Option("fp-24", "24 x 16", Dims(Num(24), Num(16))),
                              Option("fp-36", "36 x 20", Dims(Num(36), Num(20))) >>))
PageHeader ==
    SingleControl("header", << Option("header-no", "No header", NoDims),
                               Option("header-yes", "Header", NoDims) >>)
PageShipper ==
    SingleControl("shipper", << Option("shipper-no", "No shipper", NoDims),
                                Option("shipper-yes", "Shipper", NoDims) >>)
PageAssembly ==
    SingleControl("assembly", << Option("assembly-kdf", "KDF", NoDims),
                                 Option("assembly-turnkey", "Turnkey", NoDims) >>)
PageComplexity ==
    SingleControl("complexity_level", << Option("low", "Low", NoDims) >>)

\* Two declared orders: product_touches after the assembly control, and before it.
PageControls(order) ==
    IF order = 1
    THEN << PageFootprint, PageHeader, NumberControl("divider_count", 0), PageShipper,
            PageAssembly, NumberControl("product_touches", 1), NumberControl("quantity", 1),
            PageComplexity >>
    ELSE << PageFootprint, PageHeader, NumberControl("divider_count", 0), PageShipper,
            NumberControl("product_touches", 1), PageAssembly, NumberControl("quantity", 1),
            PageComplexity >>

Part(label, base_value) == [label |-> label, base_value |-> base_value]

\* base_value in whole dollars; one part has no base_value, and shipper-std is not listed.
PageParts ==
    [k \in {"base-24", "header-24", "header-std", "divider-16", "divider-std",
            "shipper-24", "touch"} |->
        CASE k = "base-24" -> Part("Base 24", Num(10))
          [] k = "header-24" -> Part("Header 24", Num(3))
          [] k = "header-std" -> Part("Header", Num(2))
          [] k = "divider-16" -> Part("Divider 16", Num(1))
          [] k = "divider-std" -> Part("Divider", Nil)
          [] k = "shipper-24" -> Part("Shipper 24", Num(5))
          [] k = "touch" -> Part("Product touch", Num(1))]

AllThirty == RowList(<<Num(30), Num(30), Num(30)>>)

PagePolicy ==
    [unit_tiers |-> << [min_qty |-> Num(1), max_qty |-> Num(2), factor |-> Num(100)],
                       [min_qty |-> Num(3), max_qty |-> Nil, factor |-> Num(95)] >>,
     tier_boundary |-> "inclusive",
     matrix_markups |-> GridList(<<AllThirty, AllThirty, AllThirty>>),
     base_markup |-> Nil]

PageCatalog(order) ==
    [controls |-> PageControls(order),
     rules |-> [n \in RuleNames \ {"resolve_printed_inside"} |-> RuleSpec(1, n)],
     parts |-> PageParts,
     policy |-> PagePolicy]

PageCatalogs == {PageCatalog(1), PageCatalog(2)}

\* The largest number the user enters into a number input.
NumberBound(cid) == IF cid = "quantity" THEN MaxQty ELSE MaxCount

Apply(out) ==
    /\ session_state' = out.ss
    /\ resolved' = out.resolved
    /\ totals' = out.totals
    /\ shown' = out.shown
    /\ UNCHANGED <<catalog, form, qty, rc, footprint_key, uf, markup, dims, pc>>

\* The first load of the page in a new session.
Init ==
    /\ catalog \in PageCatalogs
    /\ form = EmptyDict
    /\ qty = 1
    /\ rc = <<0, 0>>
    /\ footprint_key = None
    /\ uf = 0
    /\ markup = NotCalled
    /\ dims = Returned(<<Nil, Nil>>)
    /\ pc = "page"
    /\ \E out \in {Run(catalog, EmptyDict, NoEvent)} :
           /\ session_state = out.ss
           /\ resolved = out.resolved
           /\ totals = out.totals
           /\ shown = out.shown

\* The Select button of a gallery tile.
ClickSelect(tile) ==
    \E out \in {Run(catalog, session_state, [t |-> "select", key |-> TileKey(tile)])} :
        Apply(out)

\* The user picks another option of a rendered radio / selectbox.
ChooseOption(i, k) ==
    LET ctrl == catalog.controls[i]
        key == WidgetKey(ctrl.id)
    IN  /\ ctrl.type = "single"
        /\ key \in DOMAIN session_state
        /\ k \in 1..Len(ctrl.options)
        /\ session_state[key] # ctrl.options[k].label
        /\ \E out \in {Run(catalog, DictSet(session_state, key, ctrl.options[k].label), NoEvent)} :
              Apply(out)

\* The user types another value into a rendered number input.
EnterNumber(i, n) ==
    LET ctrl == catalog.controls[i]
        key == WidgetKey(ctrl.id)
    IN  /\ ctrl.type = "number"
        /\ key \in DOMAIN session_state
        /\ n \in ctrl.min..NumberBound(ctrl.id)
        /\ session_state[key] # n
        /\ \E out \in {Run(catalog, DictSet(session_state, key, n), NoEvent)} : Apply(out)

\* The user clicks a cell of the 3x3 matrix.
ClickCell(wi, ci) ==
    /\ shown = "pdq"
    /\ \E out \in {Run(catalog, session_state, [t |-> "cell", wi |-> wi, ci |-> ci])} :
          Apply(out)

Next ==
    \/ \E tile \in Tiles : ClickSelect(tile)
    \/ \E i \in 1..Len(catalog.controls) : \E k \in 1..MaxOptions : ChooseOption(i, k)
    \/ \E i \in 1..Len(catalog.controls) : \E n \in 0..Max(MaxQty, MaxCount) : EnterNumber(i, n)
    \/ \E wi \in 0..2 : \E ci \in 0..2 : ClickCell(wi, ci)

Spec == Init /\ [][Next]_vars

-----------------------------------------------------------------------------
(* The totals of the Display page *)

\* The (row, col) of the matrix cell whose key the session holds.
SelectedRowCol ==
    CHOOSE c \in (0..2) \X (0..2) : GridKey(c[1], c[2]) = session_state["selected_grid"]

CellSelected ==
    /\ pc = "page"
    /\ shown = "pdq"
    /\ "selected_grid" \in DOMAIN session_state
    /\ TruthyStr(session_state["selected_grid"])

\* C8: the totals shown by the form page satisfy
\* per_unit_after_tier = per_unit_parts_subtotal * unit_factor,
\* program_base = per_unit_after_tier * qty and
\* final_total = program_base * (1 + markup_pct), where markup_pct is the
\* matrix_markups cell at the selected (row, col).
C8_TotalsPipeline ==
    CellSelected =>
        LET q == session_state["form"]["quantity"].n
            cell == matrix_markup_pct(catalog.policy, SelectedRowCol)
        IN  /\ totals.per_unit_after_tier = totals.per_unit_parts_subtotal * totals.unit_factor
            /\ totals.program_base = totals.per_unit_after_tier * q
            /\ cell.raised = ""
            /\ totals.markup_pct = 100 * cell.val
            /\ totals.final_total = totals.program_base * (10000 + 100 * cell.val)

-----------------------------------------------------------------------------
(* C13, C14, C15 and C18: the header, dividers and assembly-touches rules *)

ResolvedOk == pc = "done" /\ resolved.raised = ""

\* The number of lines the rules at positions i..j of the fixed order add.
RECURSIVE LinesOfRules(_, _)
LinesOfRules(i, j) ==
    IF i > j THEN 0 ELSE Len(Contribution(RuleOrder[i])) + LinesOfRules(i + 1, j)

\* The rule at position k of the fixed order added exactly this line.
AddedLine(k, line) ==
    /\ Len(resolved.parts) = LinesOfRules(1, k - 1) + 1 + LinesOfRules(k + 1, 6)
    /\ resolved.parts[LinesOfRules(1, k - 1) + 1] = line

\* The rule at position k of the fixed order added no line.
AddedNothing(k) ==
    Len(resolved.parts) = LinesOfRules(1, k - 1) + LinesOfRules(k + 1, 6)

\* The quantity read from the form: 0 when the key is missing, None or 0.
QuantityRead(control) ==
    LET v == MapGet(form, control, Num(0))
    IN  IF v.t = "int" THEN v.n ELSE 0

\* The header rule's target part, as the claim describes it.
HeaderTarget ==
    LET r == catalog.rules["resolve_header"]
        width == FormDims[1]
    IN  IF /\ FormGet(form, r.when_control) = r.when_value
           /\ r.match_on_dim = "width_in"
           /\ width.t # "none"
        THEN IF Str(width.n) \in DOMAIN r.map THEN r.map[Str(width.n)] ELSE r.else
        ELSE r.else

\* C13: with resolve_header present, the target part is rule.else unless the
\* when-condition holds, match_on_dim is "width_in" and the width is known, and
\* then it is rule.map[str(width)] or rule.else; (part, 1) is appended iff the
\* target part is non-empty.
C13_HeaderRule ==
    (ResolvedOk /\ "resolve_header" \in DOMAIN catalog.rules) =>
        IF HeaderTarget # None /\ HeaderTarget # ""
        THEN AddedLine(2, <<HeaderTarget, 1>>)
        ELSE AddedNothing(2)

\* The when-condition does not hold and the header rule fires with rule.else.
C13_Witness ==
    /\ ResolvedOk
    /\ DOMAIN catalog.rules = RuleNames
    /\ "header" \notin DOMAIN form
    /\ FormGet(form, "footprint") = "fp-24"
    /\ Len(resolved.parts) >= 2
    /\ resolved.parts[2] = <<"header-std", 1>>

\* The dividers rule's part, for a known depth.
DividersPart ==
    LET r == catalog.rules["resolve_dividers"]
        depth == FormDims[2]
    IN  IF Str(depth.n) \in DOMAIN r.map THEN r.map[Str(depth.n)] ELSE r.else

DividersFire ==
    LET r == catalog.rules["resolve_dividers"]
    IN  /\ QuantityRead(r.quantity_control) > 0
        /\ r.match_on_dim = "depth_in"
        /\ FormDims[2].t # "none"
        /\ DividersPart # None /\ DividersPart # ""

\* C14: with resolve_dividers present, (part, quantity) is appended iff the
\* quantity read from the form is > 0, match_on_dim is "depth_in", the depth is
\* known and the part, rule.map[str(depth)] or rule.else, is non-empty.
C14_DividersRule ==
    (ResolvedOk /\ "resolve_dividers" \in DOMAIN catalog.rules) =>
        IF DividersFire
        THEN AddedLine(3, <<DividersPart, QuantityRead(catalog.rules["resolve_dividers"].quantity_control)>>)
        ELSE AddedNothing(3)

\* The depth is unknown, the quantity is 2, rule.else is set and no line is added.
C14_Witness ==
    /\ ResolvedOk
    /\ "resolve_dividers" \in DOMAIN catalog.rules
    /\ catalog.rules["resolve_dividers"].else = "divider-std"
    /\ catalog.rules["resolve_dividers"].match_on_dim = "depth_in"
    /\ "footprint" \notin DOMAIN form
    /\ MapGet(form, "divider_count", Nil) = Num(2)
    /\ \A i \in 1..Len(resolved.parts) : resolved.parts[i][1] # "divider-std"
    /\ \E i \in 1..Len(resolved.parts) : resolved.parts[i][1] = "header-std"

\* The assembly-touches rule fires, min_quantity being read as the claim says.
TouchesFire(min_quantity) ==
    LET r == catalog.rules["resolve_assembly_touches"]
    IN  /\ FormGet(form, r.when_control) = r.when_value
        /\ QuantityRead(r.quantity_control) >= min_quantity

TouchesLine ==
    LET r == catalog.rules["resolve_assembly_touches"]
    IN  <<r.part, QuantityRead(r.quantity_control)>>

\* min_quantity as declared, 1 when absent.
DeclaredMinQuantity ==
    LET m == catalog.rules["resolve_assembly_touches"].min_quantity
    IN  IF m.t = "none" THEN 1 ELSE m.n

\* min_quantity as resolve_parts_per_unit reads it: absent, null and 0 read as 1.
MinQuantityRead ==
    LET m == catalog.rules["resolve_assembly_touches"].min_quantity
    IN  IF m.t = "none" \/ m.n = 0 THEN 1 ELSE m.n

\* C15 as stated: with resolve_assembly_touches present, (rule.part, quantity)
\* is appended iff the when-condition holds and the quantity read from the form
\* is >= min_quantity, which is 1 when absent and otherwise as declared.
C15_TouchesDeclaredMin ==
    (ResolvedOk /\ "resolve_assembly_touches" \in DOMAIN catalog.rules) =>
        IF TouchesFire(DeclaredMinQuantity)
        THEN AddedLine(5, TouchesLine)
        ELSE AddedNothing(5)

\* C15 amended: (rule.part, quantity) is appended iff the when-condition holds,
\* the quantity read from the form is >= min_quantity, where a min_quantity
\* that is absent, null or 0 reads as 1, and rule.part is non-empty.
C15_TouchesRule ==
    (ResolvedOk /\ "resolve_assembly_touches" \in DOMAIN catalog.rules) =>
        IF /\ TouchesFire(MinQuantityRead)
           /\ TouchesLine[1] # None /\ TouchesLine[1] # ""
        THEN AddedLine(5, TouchesLine)
        ELSE AddedNothing(5)

\* The quantity equals a declared min_quantity of 2 and the rule fires.
C15_Witness ==
    /\ ResolvedOk
    /\ "resolve_assembly_touches" \in DOMAIN catalog.rules
    /\ catalog.rules["resolve_assembly_touches"].min_quantity = Num(2)
    /\ FormGet(form, "assembly") = "assembly-turnkey"
    /\ MapGet(form, "product_touches", Nil) = Num(2)
    /\ \E i \in 1..Len(resolved.parts) : resolved.parts[i] = <<"touch", 2>>

LinesWellFormed ==
    \A i \in 1..Len(resolved.parts) :
        /\ resolved.parts[i][1] # None /\ resolved.parts[i][1] # ""
        /\ resolved.parts[i][2] >= 1

\* C18 as stated: every (part_key, qty) of the returned list has a non-empty
\* part_key and qty >= 1, whatever min_quantity the assembly-touches rule declares.
C18_NoEmptyLine == ResolvedOk => LinesWellFormed

\* C18 amended: every (part_key, qty) of the returned list has a non-empty
\* part_key and qty >= 1 when the assembly-touches rule declares no negative
\* min_quantity.
C18_NoEmptyLineNonNegativeMin ==
    ( /\ ResolvedOk
      /\ \/ "resolve_assembly_touches" \notin DOMAIN catalog.rules
         \/ DeclaredMinQuantity >= 0 )
    => LinesWellFormed

\* min_quantity is declared 0, the quantity read is 0 and no touches line is emitted.
C18_Witness ==
    /\ ResolvedOk
    /\ DOMAIN catalog.rules = RuleNames
    /\ catalog.rules["resolve_assembly_touches"].min_quantity = Num(0)
    /\ FormGet(form, "assembly") = "assembly-turnkey"
    /\ MapGet(form, "product_touches", Nil) = Num(0)
    /\ MapGet(form, "divider_count", Nil) = Num(0 - 1)
    /\ Len(resolved.parts) >= 1
    /\ \A i \in 1..Len(resolved.parts) : resolved.parts[i][1] # "touch"

-----------------------------------------------------------------------------
(* C19: unit_factor on bands that leave factor or min_qty out *)

FalsyFactor(band) == band.factor.t = "none" \/ band.factor.n = 0

\* C19: a matching band whose factor is absent, null or 0 sets the result to
\* 1.0, overriding the factor of any earlier matching band; a band whose
\* min_qty is absent or null matches from quantity 0; unit_factor never
\* returns 0.
C19_FalsyFactorReadsAsOne ==
    pc = "done" =>
        /\ uf # 0
        /\ LET p == catalog.policy
               t == p.unit_tiers
               n == Len(t)
           IN  (n >= 1 /\ FalsyFactor(t[n]) /\ InBand(t[n], BoundaryOf(p), qty)) => uf = 100

\* Two bands match, the earlier with factor 0.8, the later with factor 0 and no
\* min_qty, and the result is 1.0.
C19_Witness ==
    /\ pc = "done"
    /\ LET t == catalog.policy.unit_tiers
       IN  /\ Len(t) = 2
           /\ MatchingBands(catalog.policy, qty) = {1, 2}
           /\ t[1].factor = Num(80)
           /\ t[2].factor = Num(0)
           /\ t[2].min_qty = Nil
           /\ uf = 100

-----------------------------------------------------------------------------
(* C20: the resolution of the page against resolve_parts_per_unit *)

\* C20: for every catalog without a resolve_printed_inside rule and every form,
\* the inline resolution of render_pdq_form gives the same ordered list as
\* resolve_parts_per_unit with the dims of the form's footprint.
C20_InlineAgrees ==
    (pc = "done" /\ "resolve_printed_inside" \notin DOMAIN catalog.rules) =>
        InlineResolve(catalog, form) = resolved

-----------------------------------------------------------------------------
(* C11, C12, C16 and C17: the form of the Display page across runs *)

\* The form a session holds, empty when it holds none yet.
FormOf(ss) == IF "form" \in DOMAIN ss THEN ss["form"] ELSE EmptyDict

\* C11: after assembly is changed from "assembly-turnkey", with product_touches
\* stored, to another value, the next run ends with product_touches absent from
\* the form and the assembly-touches rule adds no line, whatever the position of
\* the product_touches control relative to the assembly control.
C11_ConditionalFieldClearing ==
    [][ ( /\ shown = "pdq" /\ shown' = "pdq"
          /\ FormGet(FormOf(session_state), "assembly") = "assembly-turnkey"
          /\ "product_touches" \in DOMAIN FormOf(session_state)
          /\ FormGet(FormOf(session_state'), "assembly") # "assembly-turnkey" )
        => /\ "product_touches" \notin DOMAIN FormOf(session_state')
           /\ \A i \in 1..Len(resolved'.parts) :
                 resolved'.parts[i][1] # catalog.rules["resolve_assembly_touches"].part
      ]_vars

\* ctrl.get("required")
IsRequired(ctrl) == "required" \in DOMAIN ctrl /\ ctrl.required

\* The run that creates the form: the user has answered nothing yet.
FirstWalk == "form" \notin DOMAIN session_state /\ shown' = "pdq"

FirstRequired ==
    CHOOSE i \in 1..Len(catalog.controls) :
        /\ IsRequired(catalog.controls[i])
        /\ \A j \in 1..(i - 1) : ~IsRequired(catalog.controls[j])

\* C12: once a required control is unanswered, every later control is excluded
\* from contributing to the form, and the totals are not computed in that run.
C12_RequiredChainGating ==
    [][ FirstWalk =>
          /\ \A i \in (FirstRequired + 1)..Len(catalog.controls) :
                catalog.controls[i].id \notin DOMAIN FormOf(session_state')
          /\ totals' = NoTotals
      ]_vars

\* C16: after the first walk of the form, with no user interaction, the value
\* of a required single-choice control is none of the control's option keys.
C16_RequiredSingleStartsUnset ==
    [][ FirstWalk =>
          \A i \in 1..Len(catalog.controls) :
              LET c == catalog.controls[i]
              IN  (IsRequired(c) /\ c.type = "single" /\ c.id \in DOMAIN FormOf(session_state'))
                  => \A k \in 1..Len(c.options) :
                        FormOf(session_state')[c.id] # c.options[k].key
      ]_vars

\* The form the page builds in a new session for the display with this key.
FreshForm(key) ==
    FormOf(Run(catalog, [k \in {"selected_display_key"} |-> key], NoEvent).ss)

\* C17: choosing a different display type discards or resets the form: the
\* form used for the newly selected display holds no value entered for the
\* display selected before.
C17_FormResetOnDisplayChange ==
    [][ ( /\ "selected_display_key" \in DOMAIN session_state
          /\ session_state'["selected_display_key"] # session_state["selected_display_key"]
          /\ shown' = "pdq" )
        => FormOf(session_state') = FreshForm(session_state'["selected_display_key"])
      ]_vars

====
